---- MODULE Spec2Model ----
(***************************************************************************)
(* The notebook notebooks/peft_fine_tune.ipynb as a state machine.         *)
(*                                                                         *)
(* The state is the Jupyter kernel: the global names the cells bind, the   *)
(* model objects those names point to, and the position inside the one     *)
(* cell that loops.  Each code cell is an action (the batch evaluation     *)
(* loop is a group of actions, one per statement that can raise).  A cell  *)
(* that raises leaves the names it had already bound and the kernel goes   *)
(* back to idle; the next cell can then be run.                            *)
(*                                                                         *)
(* Spec        the cells run once each, top to bottom.                     *)
(* SpecCompare the delta computation of cells 09ac0da4 / 403ff973 applied  *)
(*             to two score mappings drawn from a bounded set.             *)
(* SpecCompareAnyOrder                                                     *)
(*             the same, the second mapping listing its keys in any order. *)
(***************************************************************************)
EXTENDS Integers, Sequences, FiniteSets, TLC

\* ------------------------------------------------------------------------
\* Bounds of the model (not program constants)
\* ------------------------------------------------------------------------

\* longest dialogue text of the fixture dataset, in characters
MaxDialogueLen == 2

\* rows of data/dialogue-summary-training-results.csv
CsvRows == 2

\* largest value of one metric in a score mapping drawn by SpecCompare
MaxScore == 1

\* how many metrics of one result of the external scorer may be at the upper end
MaxHigh == 1

\* how many of the metric names a score mapping drawn by SpecCompare may list
MaxKeys == 3

\* ------------------------------------------------------------------------
\* Program constants
\* ------------------------------------------------------------------------

\* num_rows of the three splits of knkarthick/dialogsum
TrainRows == 12460
ValidationRows == 500
TestRows == 1500

\* tokenized_datasets.filter(lambda example, index: index % 100 == 0, ...)
FilterStep == 100

\* index = 200 of the single-example evaluation
ExampleIndex == 200

\* dataset['test'][0:10]
SliceLen == 10

\* GenerationConfig(max_new_tokens=200, ...)
MaxNewTokens == 200

\* GenerationConfig(..., num_beams=1)
ExplicitNumBeams == 1

\* num_beams of a GenerationConfig built without it (greedy)
DefaultNumBeams == 1

\* print(f'{key}: {value*100:.2f}%')
Percent == 100

\* stored output of cell fb7e4af1: Total parameters / Trainable parameters
PeftTotalParams == 251116800
LoraParams == 3538944

\* a kernel name: <<>> while no cell has bound it, <<v>> once bound to v
Unbound == <<>>
Bind(v) == <<v>>
IsBound(name) == name # <<>>
Val(name) == name[1]

\* ------------------------------------------------------------------------
\* Strings
\* ------------------------------------------------------------------------

CharAt(s, i) == SubSeq(s, i, i)

RECURSIVE Repeat(_, _)
Repeat(c, n) == IF n = 0 THEN "" ELSE c \o Repeat(c, n - 1)

IsSpace(c) == c \in {" ", "\n", "\t"}

\* ------------------------------------------------------------------------
\* The dataset collaborator (a fixture: the rows the cells read)
\* ------------------------------------------------------------------------

DialogueLetters == <<"a", "b", "c">>

\* dataset['test'][i]['dialogue']: texts of every length 0..MaxDialogueLen
DialogueOf(i) ==
    Repeat(DialogueLetters[(i % 3) + 1], i % (MaxDialogueLen + 1))

\* what wrote a text: the weights and the adapter state of a model, or a human
Writer(weights, adapter) == [weights |-> weights, adapter |-> adapter]

\* a text: where it comes from, the record it belongs to, what wrote it
Text(origin, row, by) == [origin |-> origin, row |-> row, by |-> by]

\* dataset['test'][i]['summary']
SummaryOf(i) == Text("dataset", i, Writer("human", "none"))

\* Python's seq[lo:hi] on a 1-based sequence standing for a 0-based list
Slice(seq, lo, hi) ==
    LET h == IF hi > Len(seq) THEN Len(seq) ELSE hi
    IN  IF lo >= h THEN <<>> ELSE SubSeq(seq, lo + 1, h)

\* dataset['test'][column], one value per row
TestColumn(column) ==
    [k \in 1..TestRows |->
        IF column = "dialogue" THEN DialogueOf(k - 1) ELSE SummaryOf(k - 1)]

\* dataset['test'][0:10][column]
TestSlice(column) == Slice(TestColumn(column), 0, SliceLen)

\* ------------------------------------------------------------------------
\* Prompt building
\* ------------------------------------------------------------------------

start_prompt == "Summarize the following conversation.\n\n"
end_prompt == "\n\nSummary: "

\* tokenize_function: start_prompt + dialogue + end_prompt
TokenizePrompt(dialogue) == start_prompt \o dialogue \o end_prompt

\* the f-string of the two evaluation cells; the literal opens with a newline
EvalPrompt(dialogue) ==
    "\nSummarize the following conversation.\n\n" \o dialogue \o "\n\nSummary: "

\* ------------------------------------------------------------------------
\* The tokenizer (external): whitespace-separated pieces, then end-of-sequence
\* ------------------------------------------------------------------------

EosPiece == "</s>"

RECURSIVE Pieces(_, _, _)
Pieces(s, i, word) ==
    IF i > Len(s)
    THEN IF word = "" THEN <<>> ELSE <<word>>
    ELSE IF IsSpace(CharAt(s, i))
         THEN (IF word = "" THEN <<>> ELSE <<word>>) \o Pieces(s, i + 1, "")
         ELSE Pieces(s, i + 1, word \o CharAt(s, i))

\* tokenizer(prompt, return_tensors="pt").input_ids
Tokenize(s) == Pieces(s, 1, "") \o <<EosPiece>>

\* ------------------------------------------------------------------------
\* State
\* ------------------------------------------------------------------------

VARIABLES
    cursor,                     \* position of the next cell to run in CellOrder
    pc,                         \* "idle", or the statement of the running cell
    frame,                      \* the cell that is running generation
    raised,                     \* the exception that ended the last cell ("" if none)
    idx,                        \* a name no cell binds, read by the batch loop
    dataset, tokenizer, tokenized_datasets, lora_config,
    heap,                       \* the model objects
    original_model, peft_model_base, peft_model, instruct_model, peft_trainer,
    dialogues, human_baseline_summaries,
    original_model_summaries, instruct_model_summaries, peft_model_summaries,
    item,                       \* how many elements the for loop has taken
    dialogue, prompt, input_ids,
    variant,                    \* position in Variants of the generate call at hand
    text_output,                \* the three *_model_text_output names
    inflight,                   \* generate calls that have not returned
    genlog,                     \* the generate calls of the running (or last) cell
    df,                         \* the results table of the batch cell
    original_model_results, instruct_model_results, peft_model_results,
    scored,                     \* per *_results name, the pairs its rouge call scored
    improvement, printed

kernel_vars == <<dataset, tokenizer, tokenized_datasets, lora_config>>
model_vars == <<heap, original_model, peft_model_base, peft_model, instruct_model,
                peft_trainer>>
list_vars == <<dialogues, human_baseline_summaries, original_model_summaries,
               instruct_model_summaries, peft_model_summaries>>
gen_vars == <<item, dialogue, prompt, input_ids, variant, text_output, inflight,
              genlog>>
score_vars == <<original_model_results, instruct_model_results,
                peft_model_results, scored>>
compare_vars == <<improvement, printed>>

vars == <<cursor, pc, frame, raised, idx, kernel_vars, model_vars, list_vars,
          gen_vars, df, score_vars, compare_vars>>

\* ------------------------------------------------------------------------
\* The cells, in notebook order (cells that only print are left out)
\* ------------------------------------------------------------------------

CellOrder ==
    << "c5750e25", "e891a912", "50066131", "8f5ed769", "23532ea7", "fb7e4af1",
       "0722eea1", "d0381ee7", "92d23e2c", "b5ed5f88", "116e8f58", "45382b63",
       "9e4a5a1b", "09ac0da4", "403ff973" >>

\* the kernel is idle and `cell` is the next cell of the run
AtCell(cell) ==
    /\ pc = "idle"
    /\ cursor <= Len(CellOrder)
    /\ CellOrder[cursor] = cell

\* the cell ends, with exception `exc` ("" when it ran to its last statement)
EndCell(exc) ==
    /\ pc' = "idle"
    /\ raised' = exc
    /\ cursor' = cursor + 1

\* ------------------------------------------------------------------------
\* Model objects
\* ------------------------------------------------------------------------

ObjIds == {"m_original", "m_peft_base", "m_instruct"}

NotLoaded == [loaded |-> FALSE, weights |-> "", adapter |-> "none",
              trainable |-> "none"]

\* AutoModelForSeq2SeqLM.from_pretrained(name, torch_dtype=torch.bfloat16)
FromPretrained(weights) ==
    [loaded |-> TRUE, weights |-> weights, adapter |-> "none",
     trainable |-> "all"]

\* a kernel name's model: the object whose modules run, and the wrapper class
ModelRef(obj, wrapper) == [obj |-> obj, wrapper |-> wrapper]

\* get_peft_model(model, lora_config): the LoRA layers replace the q and v
\* modules of the model object it is given, and the base weights are frozen
InjectLora(o) == [o EXCEPT !.adapter = "lora_init", !.trainable = "lora"]

\* peft_trainer.train() with max_steps=1: one optimizer step on the
\* parameters that require grad
TrainStep(o) ==
    IF o.trainable = "lora" /\ o.adapter # "none"
    THEN [o EXCEPT !.adapter = "lora_trained"]
    ELSE IF o.trainable = "all"
         THEN [o EXCEPT !.weights = "updated"]
         ELSE o

\* a variant of LoadAdapter that loads the adapter with is_trainable=True
LoadAdapterTrainable(o) ==
    [o EXCEPT !.adapter = "lora_checkpoint", !.trainable = "lora"]

\* PeftModel.from_pretrained(base, './model_peft_ft/', is_trainable=False)
LoadAdapter(o) == [o EXCEPT !.adapter = "lora_checkpoint", !.trainable = "none"]

\* sum(p.numel() for p in model.parameters()): the adapter layers add
\* LoraParams parameters to those of the pretrained model
total_params(o) ==
    IF o.adapter = "none" THEN PeftTotalParams - LoraParams ELSE PeftTotalParams

\* sum(p.numel() for p in model.parameters() if p.requires_grad)
trainable_params(o) ==
    CASE o.trainable = "all" -> total_params(o)
      [] o.trainable = "lora" -> LoraParams
      [] o.trainable = "none" -> 0

\* the parameters a forward pass through the model object uses
Effective(h, ref) == Writer(h[ref.obj].weights, h[ref.obj].adapter)

\* ------------------------------------------------------------------------
\* Tokenized splits (cells 50066131 and 8f5ed769)
\* ------------------------------------------------------------------------

SplitRows == [train |-> TrainRows, validation |-> ValidationRows,
              test |-> TestRows]

\* dataset.map(tokenize_function, batched=True).remove_columns([...]): every
\* row of every split is kept (rows lists the rows by their index in the
\* dataset's split), two columns are added and four are removed
MapTokenize ==
    [s \in DOMAIN SplitRows |->
        [rows |-> [k \in 1..SplitRows[s] |-> k - 1],
         columns |-> ({"id", "dialogue", "summary", "topic", "input_ids", "labels"}
                        \ {"id", "topic", "dialogue", "summary"})]]

\* Dataset.num_rows
num_rows(split) == Len(split.rows)

\* a variant of FilterSplits that counts the rows from 1
FilterSplitsOneBased(ds) ==
    [s \in DOMAIN ds |->
        LET Keep(index) == (index + 1) % FilterStep = 0
            kept == SelectSeq([k \in 1..Len(ds[s].rows) |-> k - 1], Keep)
        IN  [ds[s] EXCEPT !.rows = [j \in 1..Len(kept) |-> ds[s].rows[kept[j] + 1]]]]

\* .filter(lambda example, index: index % 100 == 0, with_indices=True): index
\* is the position of the row in its split, counted from 0
FilterSplits(ds) ==
    [s \in DOMAIN ds |->
        LET Keep(index) == index % FilterStep = 0
            kept == SelectSeq([k \in 1..Len(ds[s].rows) |-> k - 1], Keep)
        IN  [ds[s] EXCEPT !.rows = [j \in 1..Len(kept) |-> ds[s].rows[kept[j] + 1]]]]

\* ------------------------------------------------------------------------
\* Initial state: a kernel in which only the imports have run.  idx is
\* bound by no cell: it is whatever the kernel holds from an earlier
\* session (the stored outputs come from such a kernel), or nothing.
\* ------------------------------------------------------------------------

IdxValues == {Unbound, Bind(0), Bind(SliceLen)}

\* no rouge.compute call has returned for a name
NoCall == [returned |-> FALSE, cell |-> "", n_predictions |-> 0, n_human |-> 0,
           pairs |-> <<>>]

\* every name but the three *_results, idx and the cell position
InitNames ==
    /\ pc = "idle"
    /\ frame = ""
    /\ raised = ""
    /\ dataset = Unbound
    /\ tokenizer = Unbound
    /\ tokenized_datasets = Unbound
    /\ lora_config = Unbound
    /\ heap = [o \in ObjIds |-> NotLoaded]
    /\ original_model = Unbound
    /\ peft_model_base = Unbound
    /\ peft_model = Unbound
    /\ instruct_model = Unbound
    /\ peft_trainer = Unbound
    /\ dialogues = Unbound
    /\ human_baseline_summaries = Unbound
    /\ original_model_summaries = Unbound
    /\ instruct_model_summaries = Unbound
    /\ peft_model_summaries = Unbound
    /\ item = 0
    /\ dialogue = Unbound
    /\ prompt = Unbound
    /\ input_ids = Unbound
    /\ variant = 1
    /\ text_output = [human |-> Unbound, original |-> Unbound,
                      instruct |-> Unbound, peft |-> Unbound]
    /\ inflight = {}
    /\ genlog = <<>>
    /\ df = Unbound
    /\ scored = [original |-> NoCall, instruct |-> NoCall, peft |-> NoCall]
    /\ improvement = Unbound
    /\ printed = [cell |-> "", error |-> "", lines |-> <<>>]

Init ==
    /\ InitNames
    /\ cursor = 1
    /\ idx \in IdxValues
    /\ original_model_results = Unbound
    /\ instruct_model_results = Unbound
    /\ peft_model_results = Unbound

\* ------------------------------------------------------------------------
\* Cells c5750e25 .. 92d23e2c: loading, adapter attachment, training
\* ------------------------------------------------------------------------

\* dataset = load_dataset("knkarthick/dialogsum")
Cell_c5750e25 ==
    /\ AtCell("c5750e25")
    /\ dataset' = Bind("knkarthick/dialogsum")
    /\ EndCell("")
    /\ UNCHANGED <<frame, idx, tokenizer, tokenized_datasets, lora_config,
                   model_vars, list_vars, gen_vars, df, score_vars, compare_vars>>

\* original_model = AutoModelForSeq2SeqLM.from_pretrained(model_name, ...)
\* tokenizer = AutoTokenizer.from_pretrained(model_name)
Cell_e891a912 ==
    /\ AtCell("e891a912")
    /\ heap' = [heap EXCEPT !["m_original"] = FromPretrained("google/flan-t5-base")]
    /\ original_model' = Bind(ModelRef("m_original", "none"))
    /\ tokenizer' = Bind("google/flan-t5-base")
    /\ EndCell("")
    /\ UNCHANGED <<frame, idx, dataset, tokenized_datasets, lora_config,
                   peft_model_base, peft_model, instruct_model, peft_trainer,
                   list_vars, gen_vars, df, score_vars, compare_vars>>

\* tokenized_datasets = dataset.map(tokenize_function, batched=True)
\* tokenized_datasets = tokenized_datasets.remove_columns([...])
Cell_50066131 ==
    /\ AtCell("50066131")
    /\ tokenized_datasets' = Bind(MapTokenize)
    /\ EndCell("")
    /\ UNCHANGED <<frame, idx, dataset, tokenizer, lora_config, model_vars,
                   list_vars, gen_vars, df, score_vars, compare_vars>>

\* tokenized_datasets = tokenized_datasets.filter(...)
Cell_8f5ed769 ==
    /\ AtCell("8f5ed769")
    /\ tokenized_datasets' = Bind(FilterSplits(Val(tokenized_datasets)))
    /\ EndCell("")
    /\ UNCHANGED <<frame, idx, dataset, tokenizer, lora_config, model_vars,
                   list_vars, gen_vars, df, score_vars, compare_vars>>

\* lora_config = LoraConfig(r=32, lora_alpha=32, target_modules=["q", "v"], ...)
Cell_23532ea7 ==
    /\ AtCell("23532ea7")
    /\ lora_config' = Bind([r |-> 32, lora_alpha |-> 32,
                            target_modules |-> {"q", "v"}])
    /\ EndCell("")
    /\ UNCHANGED <<frame, idx, dataset, tokenizer, tokenized_datasets, model_vars,
                   list_vars, gen_vars, df, score_vars, compare_vars>>

\* peft_model = get_peft_model(original_model, lora_config)
Cell_fb7e4af1 ==
    /\ AtCell("fb7e4af1")
    /\ LET obj == Val(original_model).obj
       IN  /\ heap' = [heap EXCEPT ![obj] = InjectLora(heap[obj])]
           /\ peft_model' = Bind(ModelRef(obj, "PeftModel"))
    /\ EndCell("")
    /\ UNCHANGED <<frame, idx, kernel_vars, original_model, peft_model_base,
                   instruct_model, peft_trainer, list_vars, gen_vars, df,
                   score_vars, compare_vars>>

\* peft_trainer = Trainer(model=peft_model, args=..., train_dataset=...)
Cell_0722eea1 ==
    /\ AtCell("0722eea1")
    /\ peft_trainer' = Bind([model |-> Val(peft_model),
                             train_rows |-> num_rows(Val(tokenized_datasets).train)])
    /\ EndCell("")
    /\ UNCHANGED <<frame, idx, kernel_vars, heap, original_model, peft_model_base,
                   peft_model, instruct_model, list_vars, gen_vars, df,
                   score_vars, compare_vars>>

\* peft_trainer.train()
Cell_d0381ee7 ==
    /\ AtCell("d0381ee7")
    /\ LET obj == Val(peft_trainer).model.obj
       IN  heap' = [heap EXCEPT ![obj] = TrainStep(heap[obj])]
    /\ EndCell("")
    /\ UNCHANGED <<frame, idx, kernel_vars, original_model, peft_model_base,
                   peft_model, instruct_model, peft_trainer, list_vars, gen_vars,
                   df, score_vars, compare_vars>>

\* peft_model_base = AutoModelForSeq2SeqLM.from_pretrained("google/flan-t5-base")
\* tokenizer = AutoTokenizer.from_pretrained("google/flan-t5-base")
\* peft_model = PeftModel.from_pretrained(peft_model_base, './model_peft_ft/',
\*                                        is_trainable=False)
\* instruct_model = AutoModelForSeq2SeqLM.from_pretrained("./model_full_ft")
\* The two checkpoints are directories outside the repository: loading either
\* can raise, and the names bound by the statements before it stay bound.
Cell_92d23e2c ==
    /\ AtCell("92d23e2c")
    /\ \E loaded \in 0..2 :
        /\ peft_model_base' = Bind(ModelRef("m_peft_base", "none"))
        /\ tokenizer' = Bind("google/flan-t5-base")
        /\ heap' =
            [heap EXCEPT
                !["m_peft_base"] =
                    IF loaded >= 1
                    THEN LoadAdapter(FromPretrained("google/flan-t5-base"))
                    ELSE FromPretrained("google/flan-t5-base"),
                !["m_instruct"] =
                    IF loaded >= 2 THEN FromPretrained("./model_full_ft") ELSE @]
        /\ peft_model' =
            IF loaded >= 1 THEN Bind(ModelRef("m_peft_base", "PeftModel"))
            ELSE peft_model
        /\ instruct_model' =
            IF loaded >= 2 THEN Bind(ModelRef("m_instruct", "none"))
            ELSE instruct_model
        /\ EndCell(IF loaded = 2 THEN "" ELSE "OSError")
    /\ UNCHANGED <<frame, idx, dataset, tokenized_datasets, lora_config,
                   original_model, peft_trainer, list_vars, gen_vars, df,
                   score_vars, compare_vars>>

\* ------------------------------------------------------------------------
\* Generation (cells b5ed5f88 and 116e8f58)
\* ------------------------------------------------------------------------

\* the order of the three generate calls in both cells
Variants == <<"original", "instruct", "peft">>

\* the kernel name a variant's call reads
ModelNamed(name) ==
    CASE name = "original" -> original_model
      [] name = "instruct" -> instruct_model
      [] name = "peft" -> peft_model

\* a variant of GenKwargs whose batch loop asks for beam search
GenKwargsBeamSearch(cell) ==
    IF cell = "b5ed5f88"
    THEN [max_new_tokens |-> MaxNewTokens, num_beams |-> ExplicitNumBeams]
    ELSE [max_new_tokens |-> MaxNewTokens, num_beams |-> ExplicitNumBeams + 3]

\* the keyword arguments the cell gives GenerationConfig
GenKwargs(cell) ==
    IF cell = "b5ed5f88"
    THEN [max_new_tokens |-> MaxNewTokens, num_beams |-> ExplicitNumBeams]
    ELSE [max_new_tokens |-> MaxNewTokens]

\* GenerationConfig(**kwargs): an option that is not given takes its default
GenerationConfig(kwargs) ==
    [max_new_tokens |-> kwargs.max_new_tokens,
     num_beams |-> IF "num_beams" \in DOMAIN kwargs THEN kwargs.num_beams
                   ELSE DefaultNumBeams]

\* a variant of GenerateArgs that tokenizes a prompt of its own for the adapter
GenerateArgsOwnPrompt(cell, name, ids) ==
    [input_ids |-> IF name = "peft" THEN Tokenize(TokenizePrompt("")) ELSE ids,
     generation_config |-> GenerationConfig(GenKwargs(cell))]

\* model.generate(input_ids=input_ids, generation_config=GenerationConfig(...))
GenerateArgs(cell, name, ids) ==
    [input_ids |-> ids,
     generation_config |-> GenerationConfig(GenKwargs(cell))]

\* the record a generate call of the running cell is about
CurrentRow == IF frame = "b5ed5f88" THEN ExampleIndex ELSE item - 1

\* a variant of NextVariant that skips the fully fine-tuned model
NextVariantSkip(v) == v + 2

\* the statement order: original, instruct, peft
NextVariant(v) == v + 1

\* the call that is running
CurrentCall == [row |-> CurrentRow, variant |-> Variants[variant]]

\* index = 200; dialogue = ...; prompt = f"""..."""; input_ids = tokenizer(...)
Cell_b5ed5f88 ==
    /\ AtCell("b5ed5f88")
    /\ LET d == DialogueOf(ExampleIndex)
       IN  /\ dialogue' = Bind(d)
           /\ prompt' = Bind(EvalPrompt(d))
           /\ input_ids' = Bind(Tokenize(EvalPrompt(d)))
    /\ pc' = "generate"
    /\ frame' = "b5ed5f88"
    /\ variant' = 1
    /\ genlog' = <<>>
    /\ UNCHANGED <<cursor, raised, idx, kernel_vars, model_vars, list_vars, item,
                   text_output, inflight, df, score_vars, compare_vars>>

\* <name>_model.generate(...) is called
GenCall ==
    /\ pc = "generate"
    /\ IsBound(ModelNamed(Variants[variant]))
    /\ LET name == Variants[variant]
           ref == Val(ModelNamed(name))
           args == GenerateArgs(frame, name, Val(input_ids))
       IN  genlog' = Append(genlog,
                [cell |-> frame, row |-> CurrentRow, variant |-> name,
                 model |-> ref, by |-> Effective(heap, ref),
                 input_ids |-> args.input_ids,
                 config |-> args.generation_config])
    /\ inflight' = inflight \cup {CurrentCall}
    /\ pc' = "generating"
    /\ UNCHANGED <<cursor, frame, raised, idx, kernel_vars, model_vars, list_vars,
                   item, dialogue, prompt, input_ids, variant, text_output, df,
                   score_vars, compare_vars>>

\* the name of the model is not bound: NameError ends the cell
GenNameError ==
    /\ pc = "generate"
    /\ ~IsBound(ModelNamed(Variants[variant]))
    /\ EndCell("NameError")
    /\ UNCHANGED <<frame, idx, kernel_vars, model_vars, list_vars, gen_vars, df,
                   score_vars, compare_vars>>

\* generate returns and tokenizer.decode(outputs[0], skip_special_tokens=True)
\* binds <name>_model_text_output; after the third call the single-example
\* cell prints and ends, the loop body goes on to its appends
GenReturn ==
    /\ pc = "generating"
    /\ LET name == Variants[variant]
           ref == Val(ModelNamed(name))
       IN  text_output' = [text_output EXCEPT ![name] =
                Bind(Text("generated", CurrentRow, Effective(heap, ref)))]
    /\ inflight' = inflight \ {CurrentCall}
    /\ IF NextVariant(variant) <= Len(Variants)
       THEN /\ variant' = NextVariant(variant)
            /\ pc' = "generate"
            /\ UNCHANGED <<cursor, raised>>
       ELSE /\ variant' = variant
            /\ IF frame = "b5ed5f88"
               THEN EndCell("")
               ELSE /\ pc' = "append"
                    /\ UNCHANGED <<cursor, raised>>
    /\ UNCHANGED <<frame, idx, kernel_vars, model_vars, list_vars, item, dialogue,
                   prompt, input_ids, genlog, df, score_vars, compare_vars>>

\* generate raises (resources, malformed input): no cell catches it
GenRaise ==
    /\ pc = "generating"
    /\ inflight' = inflight \ {CurrentCall}
    /\ EndCell("GenerationFailure")
    /\ UNCHANGED <<frame, idx, kernel_vars, model_vars, list_vars, item, dialogue,
                   prompt, input_ids, variant, text_output, genlog, df,
                   score_vars, compare_vars>>

\* ------------------------------------------------------------------------
\* Cell 116e8f58: the batch evaluation loop
\* ------------------------------------------------------------------------

\* a variant of AppendSummary that puts the newest summary first
PrependSummary(list, text) == <<text>> \o list

\* <variant>_model_summaries.append(<variant>_model_text_output)
AppendSummary(list, text) == Append(list, text)

Min(a, b) == IF a < b THEN a ELSE b

\* a variant of ZipSummaries that puts the first human summary in every row
ZipSummariesOneHuman(human, original, instruct, peft) ==
    LET n == Min(Min(Len(human), Len(original)), Min(Len(instruct), Len(peft)))
    IN  [k \in 1..n |->
            [human_baseline_summaries |-> human[1],
             original_model_summaries |-> original[k],
             instruct_model_summaries |-> instruct[k],
             peft_model_summaries |-> peft[k]]]

\* list(zip(human, original, instruct, peft)) as DataFrame rows: zip stops at
\* the shortest of its arguments
ZipSummaries(human, original, instruct, peft) ==
    LET n == Min(Min(Len(human), Len(original)), Min(Len(instruct), Len(peft)))
    IN  [k \in 1..n |->
            [human_baseline_summaries |-> human[k],
             original_model_summaries |-> original[k],
             instruct_model_summaries |-> instruct[k],
             peft_model_summaries |-> peft[k]]]

\* dialogues = dataset['test'][0:10]['dialogue'] ... peft_model_summaries = []
LoopStart ==
    /\ AtCell("116e8f58")
    /\ dialogues' = Bind(TestSlice("dialogue"))
    /\ human_baseline_summaries' = Bind(TestSlice("summary"))
    /\ original_model_summaries' = Bind(<<>>)
    /\ instruct_model_summaries' = Bind(<<>>)
    /\ peft_model_summaries' = Bind(<<>>)
    /\ item' = 0
    /\ pc' = "for"
    /\ frame' = "116e8f58"
    /\ genlog' = <<>>
    /\ UNCHANGED <<cursor, raised, idx, kernel_vars, model_vars, dialogue, prompt,
                   input_ids, variant, text_output, inflight, df, score_vars,
                   compare_vars>>

\* for dialogue in tqdm(dialogues): prompt = f"""..."""; input_ids = tokenizer(...)
LoopNext ==
    /\ pc = "for"
    /\ item < Len(Val(dialogues))
    /\ LET d == Val(dialogues)[item + 1]
       IN  /\ dialogue' = Bind(d)
           /\ prompt' = Bind(EvalPrompt(d))
           /\ input_ids' = Bind(Tokenize(EvalPrompt(d)))
    /\ item' = item + 1
    /\ pc' = "idx"
    /\ UNCHANGED <<cursor, frame, raised, idx, kernel_vars, model_vars, list_vars,
                   variant, text_output, inflight, genlog, df, score_vars,
                   compare_vars>>

\* idx is a valid Python index of a list of n elements
ValidIndex(i, n) == -n <= i /\ i < n

\* Python's list[i]
ListAt(list, i) == IF i < 0 THEN list[Len(list) + i + 1] ELSE list[i + 1]

\* human_baseline_text_output = human_baseline_summaries[idx]
LoopReadIdx ==
    /\ pc = "idx"
    /\ IsBound(idx)
    /\ ValidIndex(Val(idx), Len(Val(human_baseline_summaries)))
    /\ text_output' = [text_output EXCEPT !.human =
            Bind(ListAt(Val(human_baseline_summaries), Val(idx)))]
    /\ variant' = 1
    /\ pc' = "generate"
    /\ UNCHANGED <<cursor, frame, raised, idx, kernel_vars, model_vars, list_vars,
                   item, dialogue, prompt, input_ids, inflight, genlog, df,
                   score_vars, compare_vars>>

\* the same statement when idx is not bound, or is out of range
LoopReadIdxRaise ==
    /\ pc = "idx"
    /\ \/ ~IsBound(idx) /\ EndCell("NameError")
       \/ /\ IsBound(idx)
          /\ ~ValidIndex(Val(idx), Len(Val(human_baseline_summaries)))
          /\ EndCell("IndexError")
    /\ UNCHANGED <<frame, idx, kernel_vars, model_vars, list_vars, gen_vars, df,
                   score_vars, compare_vars>>

\* the three appends that end the loop body
LoopAppend ==
    /\ pc = "append"
    /\ original_model_summaries' =
        Bind(AppendSummary(Val(original_model_summaries), Val(text_output.original)))
    /\ instruct_model_summaries' =
        Bind(AppendSummary(Val(instruct_model_summaries), Val(text_output.instruct)))
    /\ peft_model_summaries' =
        Bind(AppendSummary(Val(peft_model_summaries), Val(text_output.peft)))
    /\ pc' = "for"
    /\ UNCHANGED <<cursor, frame, raised, idx, kernel_vars, model_vars, dialogues,
                   human_baseline_summaries, gen_vars, df, score_vars,
                   compare_vars>>

\* the loop is exhausted: zipped_summaries, df
LoopEnd ==
    /\ pc = "for"
    /\ item = Len(Val(dialogues))
    /\ df' = Bind(ZipSummaries(Val(human_baseline_summaries),
                               Val(original_model_summaries),
                               Val(instruct_model_summaries),
                               Val(peft_model_summaries)))
    /\ EndCell("")
    /\ UNCHANGED <<frame, idx, kernel_vars, model_vars, list_vars, gen_vars,
                   score_vars, compare_vars>>

\* ------------------------------------------------------------------------
\* Scoring (cells 45382b63 and 9e4a5a1b)
\* ------------------------------------------------------------------------

\* the keys of the mapping rouge.compute returns, in the order it lists them
RougeTypes == <<"rouge1", "rouge2", "rougeL", "rougeLsum">>

\* a score mapping is a Python dict: its items in insertion order
Keys(d) == [i \in 1..Len(d) |-> d[i].key]
Values(d) == [i \in 1..Len(d) |-> d[i].value]
KeySet(d) == {d[i].key : i \in 1..Len(d)}

\* d[k]
Lookup(d, k) == d[CHOOSE i \in 1..Len(d) : d[i].key = k].value

\* a score is a float in [0, 1]; the kernel model keeps the two ends
ScoreEnds == {0, 1}

\* the mappings the kernel model lets rouge.compute return: every key of
\* RougeTypes, at most MaxHigh of them at the upper end
RougeResults ==
    {[i \in 1..Len(RougeTypes) |-> [key |-> RougeTypes[i], value |-> v[i]]] :
        v \in {w \in [1..Len(RougeTypes) -> ScoreEnds] :
                Cardinality({i \in 1..Len(RougeTypes) : w[i] = 1}) <= MaxHigh}}

\* references=human_baseline_summaries[0:len(<variant>_model_summaries)]
References(human, predictions) == Slice(human, 0, Len(predictions))

\* rouge.compute pairs prediction k with reference k
ScoredPairs(predictions, references) ==
    [k \in 1..Min(Len(predictions), Len(references)) |->
        [prediction |-> predictions[k], reference |-> references[k]]]

\* rouge.compute (external) refuses sequences of different lengths.  What it
\* does with two empty sequences is fixed by nothing in the notebook: it may
\* raise, return a mapping, or return a mapping without keys.  The texts of
\* the stored table come from a file the repository does not hold: a column
\* may hold a value rouge.compute cannot score (pandas reads an empty cell as
\* NaN), so a call on a column of the file may raise as well.
FromFile(predictions) ==
    \E k \in 1..Len(predictions) : predictions[k].origin = "csv"
ComputeMayRaise(predictions, references) ==
    \/ Len(predictions) # Len(references)
    \/ Len(predictions) = 0
    \/ FromFile(predictions)
ComputeMayReturn(predictions, references) ==
    Len(predictions) = Len(references)
ComputeResults(predictions) ==
    IF Len(predictions) = 0 THEN RougeResults \cup {<<>>} ELSE RougeResults

\* the predictions of the rouge.compute call at hand
Predictions ==
    CASE Variants[variant] = "original" -> Val(original_model_summaries)
      [] Variants[variant] = "instruct" -> Val(instruct_model_summaries)
      [] Variants[variant] = "peft" -> Val(peft_model_summaries)

\* cell 45382b63 starts: rouge = evaluate.load('rouge')
ScoreStartLive ==
    /\ AtCell("45382b63")
    /\ pc' = "score"
    /\ frame' = "45382b63"
    /\ variant' = 1
    /\ UNCHANGED <<cursor, raised, idx, kernel_vars, model_vars, list_vars, item,
                   dialogue, prompt, input_ids, text_output, inflight, genlog, df,
                   score_vars, compare_vars>>

\* results[column].values of data/dialogue-summary-training-results.csv
CsvColumn(column) ==
    [k \in 1..CsvRows |-> Text("csv", k - 1, Writer(column, "csv"))]

\* cell 9e4a5a1b starts: results = pd.read_csv(...) and the four lists are
\* rebound to its columns
ScoreStartCsv ==
    /\ AtCell("9e4a5a1b")
    /\ human_baseline_summaries' = Bind(CsvColumn("human_baseline_summaries"))
    /\ original_model_summaries' = Bind(CsvColumn("original_model_summaries"))
    /\ instruct_model_summaries' = Bind(CsvColumn("instruct_model_summaries"))
    /\ peft_model_summaries' = Bind(CsvColumn("peft_model_summaries"))
    /\ pc' = "score"
    /\ frame' = "9e4a5a1b"
    /\ variant' = 1
    /\ UNCHANGED <<cursor, raised, idx, kernel_vars, model_vars, dialogues, item,
                   dialogue, prompt, input_ids, text_output, inflight, genlog, df,
                   score_vars, compare_vars>>

\* the file is not part of the repository: read_csv raises
CsvMissing ==
    /\ AtCell("9e4a5a1b")
    /\ EndCell("FileNotFoundError")
    /\ UNCHANGED <<frame, idx, kernel_vars, model_vars, list_vars, gen_vars, df,
                   score_vars, compare_vars>>

\* <variant>_model_results = rouge.compute(predictions=..., references=...,
\*                                         use_aggregator=True, use_stemmer=True)
RougeReturn ==
    /\ pc = "score"
    /\ LET name == Variants[variant]
           refs == References(Val(human_baseline_summaries), Predictions)
       IN  /\ ComputeMayReturn(Predictions, refs)
           /\ \E r \in ComputeResults(Predictions) :
                /\ original_model_results' =
                    IF name = "original" THEN Bind(r) ELSE original_model_results
                /\ instruct_model_results' =
                    IF name = "instruct" THEN Bind(r) ELSE instruct_model_results
                /\ peft_model_results' =
                    IF name = "peft" THEN Bind(r) ELSE peft_model_results
           /\ scored' = [scored EXCEPT ![name] =
                    [returned |-> TRUE,
                     cell |-> frame,
                     n_predictions |-> Len(Predictions),
                     n_human |-> Len(Val(human_baseline_summaries)),
                     pairs |-> ScoredPairs(Predictions, refs)]]
    /\ IF NextVariant(variant) <= Len(Variants)
       THEN /\ variant' = NextVariant(variant)
            /\ UNCHANGED <<cursor, pc, raised>>
       ELSE /\ variant' = variant
            /\ EndCell("")
    /\ UNCHANGED <<frame, idx, kernel_vars, model_vars, list_vars, item, dialogue,
                   prompt, input_ids, text_output, inflight, genlog, df,
                   compare_vars>>

\* rouge.compute raises: the names bound by the calls before it stay bound
RougeRaise ==
    /\ pc = "score"
    /\ ComputeMayRaise(Predictions,
                       References(Val(human_baseline_summaries), Predictions))
    /\ EndCell("ValueError")
    /\ UNCHANGED <<frame, idx, kernel_vars, model_vars, list_vars, gen_vars, df,
                   score_vars, compare_vars>>

\* ------------------------------------------------------------------------
\* Deltas (cells 09ac0da4 and 403ff973)
\* ------------------------------------------------------------------------

Max(a, b) == IF a > b THEN a ELSE b

\* numpy can subtract two 1-d arrays of equal length, or of length 1 and n
Broadcastable(x, y) == Len(x) = Len(y) \/ Len(x) = 1 \/ Len(y) = 1

\* a variant of ArraySub that keeps the size of the difference, not its sign
ArraySubAbs(x, y) ==
    LET n == IF Len(x) = 1 THEN Len(y) ELSE Len(x)
        d(i) == (IF Len(x) = 1 THEN x[1] ELSE x[i]) - (IF Len(y) = 1 THEN y[1] ELSE y[i])
    IN  [i \in 1..n |-> IF d(i) < 0 THEN 0 - d(i) ELSE d(i)]

\* a variant of ArraySub that subtracts the other way round
ArraySubSwapped(x, y) ==
    LET n == IF Len(x) = 1 THEN Len(y) ELSE Len(x)
    IN  [i \in 1..n |->
            (IF Len(y) = 1 THEN y[1] ELSE y[i]) - (IF Len(x) = 1 THEN x[1] ELSE x[i])]

\* np.array(x) - np.array(y), for broadcastable x and y
ArraySub(x, y) ==
    LET n == IF Len(x) = 1 THEN Len(y) ELSE Len(x)
    IN  [i \in 1..n |->
            (IF Len(x) = 1 THEN x[1] ELSE x[i]) - (IF Len(y) = 1 THEN y[1] ELSE y[i])]

\* for key, value in zip(first.keys(), improvement): print(key, value*100)
DeltaLines(first, deltas) ==
    [i \in 1..Min(Len(first), Len(deltas)) |->
        [key |-> first[i].key, value |-> deltas[i] * Percent]]

\* improvement = np.array(list(first.values())) - np.array(list(second.values()))
\* followed by the print loop; first and second are kernel names
CompareCell(cell, first, second) ==
    /\ AtCell(cell)
    /\ IF ~IsBound(first) \/ ~IsBound(second)
       THEN /\ EndCell("NameError")
            /\ printed' = [cell |-> cell, error |-> "NameError", lines |-> <<>>]
            /\ UNCHANGED improvement
       ELSE IF ~Broadcastable(Values(Val(first)), Values(Val(second)))
       THEN /\ EndCell("ValueError")
            /\ printed' = [cell |-> cell, error |-> "ValueError", lines |-> <<>>]
            /\ UNCHANGED improvement
       ELSE /\ improvement' = Bind(ArraySub(Values(Val(first)), Values(Val(second))))
            /\ printed' = [cell |-> cell, error |-> "",
                           lines |-> DeltaLines(Val(first), Val(improvement'))]
            /\ EndCell("")
    /\ UNCHANGED <<frame, idx, kernel_vars, model_vars, list_vars, gen_vars, df,
                   score_vars>>

\* improvement of PEFT MODEL over ORIGINAL MODEL
Cell_09ac0da4 == CompareCell("09ac0da4", peft_model_results, original_model_results)

\* improvement of PEFT MODEL over INSTRUCT MODEL
Cell_403ff973 == CompareCell("403ff973", peft_model_results, instruct_model_results)

\* ------------------------------------------------------------------------
\* Specifications
\* ------------------------------------------------------------------------

Next ==
    \/ Cell_c5750e25 \/ Cell_e891a912 \/ Cell_50066131 \/ Cell_8f5ed769
    \/ Cell_23532ea7 \/ Cell_fb7e4af1 \/ Cell_0722eea1 \/ Cell_d0381ee7
    \/ Cell_92d23e2c
    \/ Cell_b5ed5f88 \/ GenCall \/ GenNameError \/ GenReturn \/ GenRaise
    \/ LoopStart \/ LoopNext \/ LoopReadIdx \/ LoopReadIdxRaise \/ LoopAppend
    \/ LoopEnd
    \/ ScoreStartLive \/ ScoreStartCsv \/ CsvMissing \/ RougeReturn \/ RougeRaise
    \/ Cell_09ac0da4 \/ Cell_403ff973

Spec == Init /\ [][Next]_vars

\* the position of a cell in CellOrder
CellIndex(cell) == CHOOSE k \in 1..Len(CellOrder) : CellOrder[k] = cell

\* the metric names a score mapping drawn for SpecCompare may list
MetricNames == {RougeTypes[i] : i \in 1..Min(MaxKeys, Len(RougeTypes))}

\* the position of a metric name in rouge.compute's result
KeyIndex(k) == CHOOSE i \in 1..Len(RougeTypes) : RougeTypes[i] = k

\* the score mappings rouge.compute can return for some choice of metrics
\* among MetricNames: one or more keys, listed in the order of RougeTypes,
\* each with a score in units of 1/MaxScore
ScoreMappings ==
    UNION {{d \in [1..n -> [key : MetricNames, value : 0..MaxScore]] :
                \A i, j \in 1..n :
                    i < j => KeyIndex(d[i].key) < KeyIndex(d[j].key)} :
            n \in 1..Cardinality(MetricNames)}

\* the kernel just before the two delta cells, the three *_results bound to
\* mappings a and b
InitCompare ==
    /\ InitNames
    /\ cursor = CellIndex("09ac0da4")
    /\ idx = Unbound
    /\ \E a, b \in ScoreMappings :
        /\ peft_model_results = Bind(a)
        /\ original_model_results = Bind(b)
        /\ instruct_model_results = Bind(b)

NextCompare == Cell_09ac0da4 \/ Cell_403ff973

SpecCompare == InitCompare /\ [][NextCompare]_vars

\* the dicts over MetricNames whatever the order their keys were inserted in
ScoreMappingsAnyOrder ==
    UNION {{d \in [1..n -> [key : MetricNames, value : 0..MaxScore]] :
                \A i, j \in 1..n : i # j => d[i].key # d[j].key} :
            n \in 1..Cardinality(MetricNames)}

\* the kernel just before the two delta cells, peft_model_results bound to a
\* mapping in rouge.compute's key order and the other two to a dict that may
\* list its keys in another order
InitCompareAnyOrder ==
    /\ InitNames
    /\ cursor = CellIndex("09ac0da4")
    /\ idx = Unbound
    /\ \E a \in ScoreMappings, b \in ScoreMappingsAnyOrder :
        /\ peft_model_results = Bind(a)
        /\ original_model_results = Bind(b)
        /\ instruct_model_results = Bind(b)

SpecCompareAnyOrder == InitCompareAnyOrder /\ [][NextCompare]_vars

\* ------------------------------------------------------------------------
\* Properties
\* ------------------------------------------------------------------------

LoopCell == "116e8f58"

VariantNames == {Variants[v] : v \in 1..Len(Variants)}

\* the kernel name <variant>_model_summaries
SummariesNamed(name) ==
    CASE name = "original" -> original_model_summaries
      [] name = "instruct" -> instruct_model_summaries
      [] name = "peft" -> peft_model_summaries

\* the generate calls logged so far are those of the batch loop
LoopLog == Len(genlog) > 0 /\ genlog[1].cell = LoopCell

\* the generate call logged last; while pc = "generating" it is the call
\* that is running, and every call runs at some point
LastCall == genlog[Len(genlog)]

\* the two mappings the delta cell that ran last has read
ComparedFirst == peft_model_results
ComparedSecond ==
    IF printed.cell = "09ac0da4" THEN original_model_results
    ELSE instruct_model_results

\* C1: every prompt an evaluation cell builds for a dialogue d is exactly
\* "Summarize the following conversation.\n\n" + d + "\n\nSummary: ", with
\* nothing before the prefix and nothing after the suffix.
C1_PromptIsTemplate ==
    IsBound(prompt) =>
        Val(prompt) = "Summarize the following conversation.\n\n"
                        \o Val(dialogue) \o "\n\nSummary: "

\* C2: positional alignment from dialogue through generation to scoring.
\* In the batch loop every call for record i is fed the prompt of dialogue i
\* (checked of each call while it runs);
\* element i of each variant's list is the text that variant generated for
\* record i; once the loop has run to its end each list has one element per
\* dialogue; and every pair rouge.compute scores is a generated summary with
\* the human summary of the same record.
C2_BatchAligned ==
    /\ (LoopLog /\ pc = "generating") =>
        LastCall.input_ids =
            Tokenize(EvalPrompt(Val(dialogues)[LastCall.row + 1]))
    /\ \A v \in 1..Len(Variants) :
        LET list == SummariesNamed(Variants[v])
        IN  IsBound(list) =>
              \A k \in 1..Len(Val(list)) :
                Val(list)[k].origin = "generated" =>
                    /\ Val(list)[k].row = k - 1
                    /\ IsBound(df) => Len(Val(list)) = Len(Val(dialogues))
                    /\ LoopLog =>
                        LET call == genlog[Len(Variants) * (k - 1) + v]
                        IN  /\ call.variant = Variants[v]
                            /\ call.row = k - 1
                            /\ Val(list)[k].by = call.by
    /\ \A name \in VariantNames :
        \A k \in 1..Len(scored[name].pairs) :
            LET pair == scored[name].pairs[k]
            IN  pair.prediction.origin = "generated" =>
                    /\ pair.prediction.row = k - 1
                    /\ pair.reference = SummaryOf(k - 1)
                    /\ IsBound(df) =>
                        Len(scored[name].pairs) = Len(Val(dialogues))

\* the loop ran to its end and the adapter-tuned summaries were scored
C2_Witness ==
    /\ IsBound(df)
    /\ scored.peft.returned
    /\ Len(scored.peft.pairs) = SliceLen
    /\ scored.peft.pairs[SliceLen].prediction.origin = "generated"

\* C3: scoring fails with a length mismatch whenever the number of
\* predictions differs from the number of reference summaries, and never
\* goes on with the longer sequence cut short (stated for calls that are
\* given at least one prediction).
C3_MismatchRejected ==
    \A name \in VariantNames :
        (scored[name].returned /\ scored[name].n_predictions > 0) =>
            scored[name].n_predictions = scored[name].n_human

\* C4: for two score mappings with the same metric keys the delta cell
\* prints, for every key k, the value 100 * (first[k] - second[k]), which is
\* positive exactly when the first mapping scores higher on k.
C4_DeltaPerKey ==
    (/\ printed.cell # ""
     /\ IsBound(ComparedFirst) /\ IsBound(ComparedSecond)
     /\ KeySet(Val(ComparedFirst)) = KeySet(Val(ComparedSecond))) =>
        LET a == Val(ComparedFirst)
            b == Val(ComparedSecond)
        IN  /\ printed.error = ""
            /\ Len(printed.lines) = Len(a)
            /\ \A k \in KeySet(a) :
                /\ \E i \in 1..Len(printed.lines) : printed.lines[i].key = k
                /\ \A i \in 1..Len(printed.lines) :
                    printed.lines[i].key = k =>
                        /\ printed.lines[i].value = 100 * (Lookup(a, k) - Lookup(b, k))
                        /\ printed.lines[i].value > 0 <=> Lookup(a, k) > Lookup(b, k)

\* a delta cell has printed a positive and a negative delta
C4_Witness ==
    /\ printed.cell # ""
    /\ printed.error = ""
    /\ \E i, j \in 1..Len(printed.lines) :
        printed.lines[i].value > 0 /\ printed.lines[j].value < 0

\* C5: comparing two score mappings whose sets of metric names differ fails
\* (the cell ends with an error, whatever its name) and prints no delta.
C5_MismatchRejected ==
    (/\ printed.cell # ""
     /\ IsBound(ComparedFirst) /\ IsBound(ComparedSecond)
     /\ KeySet(Val(ComparedFirst)) # KeySet(Val(ComparedSecond))) =>
        /\ printed.error # ""
        /\ printed.lines = <<>>

\* C6: a generation failure for one dialogue does not end the batch: when
\* the batch cell is over after such a failure, the loop has still taken
\* every dialogue.
C6_FailureIsolated ==
    (frame = LoopCell /\ pc = "idle" /\ raised = "GenerationFailure") =>
        item = Len(Val(dialogues))

\* C7: every generate call on the BASE variant runs the unmodified
\* pretrained model (no adapter layers, pretrained weights), and the calls
\* for one record run three different model objects.
C7_BaseUnmodified ==
    /\ \A j \in 1..Len(genlog) :
        genlog[j].variant = "original" =>
            genlog[j].by = Writer("google/flan-t5-base", "none")
    /\ \A i, j \in 1..Len(genlog) :
        (i # j /\ genlog[i].row = genlog[j].row) =>
            genlog[i].model.obj # genlog[j].model.obj

\* C8: for every dialogue that is evaluated the three variants are fed the
\* same input_ids, the ones tokenized once from the prompt of that dialogue
\* (checked of each call while it runs).
C8_SamePrompt ==
    /\ \A i, j \in 1..Len(genlog) :
        genlog[i].row = genlog[j].row => genlog[i].input_ids = genlog[j].input_ids
    /\ pc = "generating" =>
        LastCall.input_ids = Tokenize(EvalPrompt(DialogueOf(LastCall.row)))

\* all three variants have been called for a record with a non-empty dialogue
C8_Witness ==
    /\ LoopLog
    /\ \E j \in 1..Len(genlog) :
        /\ genlog[j].variant = "peft"
        /\ DialogueOf(genlog[j].row) # ""

\* C9: in the batch loop the generate calls are, in order, one call per
\* (dialogue, variant) pair, none repeated and none skipped; at most one
\* call is running at any time; and a loop that has run to its end has made
\* three calls per dialogue.
C9_OncePerPair ==
    LoopLog =>
        /\ \A j \in 1..Len(genlog) :
            /\ genlog[j].row = (j - 1) \div Len(Variants)
            /\ genlog[j].variant = Variants[((j - 1) % Len(Variants)) + 1]
        /\ Cardinality(inflight) <= 1
        /\ inflight # {} =>
            inflight = {[row |-> genlog[Len(genlog)].row,
                         variant |-> genlog[Len(genlog)].variant]}
        /\ IsBound(df) => Len(genlog) = 3 * Len(Val(dialogues))

\* the loop has run to its end over all ten dialogues
C9_Witness ==
    /\ LoopLog
    /\ IsBound(df)
    /\ Len(genlog) = 3 * SliceLen
    /\ inflight = {}

\* C10: every generate call of the two evaluation cells decodes with
\* max_new_tokens = 200 and num_beams = 1, whether or not the cell names
\* num_beams.
C10_GreedyTwoHundred ==
    \A j \in 1..Len(genlog) :
        genlog[j].config = [max_new_tokens |-> 200, num_beams |-> 1]

\* a call of the batch loop, whose GenerationConfig does not name num_beams
C10_Witness ==
    /\ LoopLog
    /\ "num_beams" \notin DOMAIN GenKwargs(genlog[1].cell)
    /\ genlog[1].config.num_beams = 1

\* what the delta computation of the cells prints for the operands first and
\* second, in that order
Compare(first, second) ==
    DeltaLines(first, ArraySub(Values(first), Values(second)))

\* C11: for two score mappings with the same metric keys, the deltas the
\* cell has printed for (a, b) are, key by key, the negation of the deltas
\* the same computation gives for (b, a); when a and b are the same mapping
\* every printed delta is zero.
C11_Antisymmetric ==
    (/\ printed.cell # "" /\ printed.error = ""
     /\ IsBound(ComparedFirst) /\ IsBound(ComparedSecond)
     /\ KeySet(Val(ComparedFirst)) = KeySet(Val(ComparedSecond))) =>
        LET a == Val(ComparedFirst)
            b == Val(ComparedSecond)
            back == Compare(b, a)
        IN  /\ Len(back) = Len(printed.lines)
            /\ \A i \in 1..Len(printed.lines) :
                \E j \in 1..Len(back) :
                    /\ back[j].key = printed.lines[i].key
                    /\ back[j].value = 0 - printed.lines[i].value
            /\ a = b => \A i \in 1..Len(printed.lines) : printed.lines[i].value = 0

\* a delta cell has printed a non-zero delta for mappings with the same keys
C11_Witness ==
    /\ printed.cell # "" /\ printed.error = ""
    /\ KeySet(Val(ComparedFirst)) = KeySet(Val(ComparedSecond))
    /\ Len(printed.lines) > 1
    /\ \E i \in 1..Len(printed.lines) : printed.lines[i].value # 0

\* the three model columns of the results table
ModelColumns ==
    {"original_model_summaries", "instruct_model_summaries", "peft_model_summaries"}

\* C13: the table df built after the batch loop has one row per dialogue, in
\* dialogue order, and row i holds the human summary of record i and three
\* summaries generated for record i; and when the scoring cell reads the
\* columns of the stored table, every scored pair is a model summary and the
\* human summary of the same table row, one pair per row.
C13_TableAligned ==
    /\ IsBound(df) =>
        /\ Len(Val(df)) = Len(Val(dialogues))
        /\ \A k \in 1..Len(Val(df)) :
            /\ Val(df)[k].human_baseline_summaries = SummaryOf(k - 1)
            /\ \A c \in ModelColumns :
                /\ Val(df)[k][c].origin = "generated"
                /\ Val(df)[k][c].row = k - 1
    /\ \A name \in VariantNames :
        \A k \in 1..Len(scored[name].pairs) :
            LET pair == scored[name].pairs[k]
            IN  pair.prediction.origin = "csv" =>
                    /\ pair.prediction.row = k - 1
                    /\ pair.reference.origin = "csv"
                    /\ pair.reference.row = k - 1
                    /\ pair.reference.by = Writer("human_baseline_summaries", "csv")
                    /\ Len(scored[name].pairs) = CsvRows

\* the table was built over the ten dialogues and the stored table was scored
C13_Witness ==
    /\ IsBound(df)
    /\ Len(Val(df)) = SliceLen
    /\ scored.peft.returned
    /\ Len(scored.peft.pairs) = CsvRows
    /\ scored.peft.pairs[CsvRows].prediction.origin = "csv"

\* C14: once cell 92d23e2c has loaded the adapter-tuned model with
\* is_trainable=False, the model peft_model names has no trainable parameter,
\* and its total parameter count is the one of the adapter-carrying model
\* that was trained.
C14_NoTrainableParams ==
    (IsBound(peft_model) /\ Val(peft_model).obj = "m_peft_base") =>
        LET o == heap[Val(peft_model).obj]
        IN  /\ Val(peft_model).wrapper = "PeftModel"
            /\ trainable_params(o) = 0
            /\ total_params(o) = 251116800
            /\ heap["m_original"].adapter # "none" =>
                total_params(o) = total_params(heap["m_original"])

\* the loaded adapter-tuned model has been used for generation
C14_Witness ==
    /\ IsBound(peft_model)
    /\ Val(peft_model).obj = "m_peft_base"
    /\ heap["m_peft_base"].adapter = "lora_checkpoint"
    /\ heap["m_original"].adapter = "lora_trained"
    /\ \E j \in 1..Len(genlog) : genlog[j].variant = "peft"

\* C15: in a kernel where no name is bound other than by the cells above
\* (idx among them) and every earlier cell has done its work (the three
\* models are loaded, the single example was summarised by all of them), the
\* batch cell ends without an exception and leaves ten summaries in each of
\* the three lists.
C15_FreshKernelLoopCompletes ==
    (/\ idx = Unbound
     /\ IsBound(instruct_model) /\ IsBound(text_output.peft)
     /\ frame = LoopCell /\ pc = "idle") =>
        /\ raised = ""
        /\ \A name \in VariantNames :
            Len(Val(SummariesNamed(name))) = SliceLen

\* C16: whatever the order in which two score mappings with the same set of
\* keys list them, every line a delta cell prints carries, under its key k,
\* the value 100 * (first[k] - second[k]).
C16_LabelledByKey ==
    (/\ printed.cell # ""
     /\ IsBound(ComparedFirst) /\ IsBound(ComparedSecond)
     /\ KeySet(Val(ComparedFirst)) = KeySet(Val(ComparedSecond))) =>
        /\ printed.error = ""
        /\ \A i \in 1..Len(printed.lines) :
            LET k == printed.lines[i].key
            IN  printed.lines[i].value =
                    100 * (Lookup(Val(ComparedFirst), k) - Lookup(Val(ComparedSecond), k))

\* the *_results name a delta cell subtracts from peft_model_results
SecondName == IF printed.cell = "09ac0da4" THEN "original" ELSE "instruct"

\* C17: whenever a delta cell has printed deltas of two score mappings that
\* rouge.compute returned for at least one summary each, the two mappings
\* were bound by calls of the same scoring cell, over the same list of
\* reference summaries.
C17_SameScoringPass ==
    (/\ printed.cell # "" /\ printed.error = ""
     /\ scored.peft.n_predictions > 0
     /\ scored[SecondName].n_predictions > 0) =>
        /\ scored.peft.cell = scored[SecondName].cell
        /\ scored.peft.n_human = scored[SecondName].n_human

\* C18: when cell 8f5ed769 has just run, every split of tokenized_datasets
\* holds exactly the rows whose index in the split is a multiple of 100, in
\* increasing order, which are ceil(n / 100) rows of a split of n rows; and
\* from then on the splits have 125, 5 and 15 rows, each with the columns
\* input_ids and labels only.
C18_Subsample ==
    /\ cursor = CellIndex("8f5ed769") + 1 =>
        \A s \in DOMAIN SplitRows :
            LET split == Val(tokenized_datasets)[s]
                n == SplitRows[s]
            IN  /\ num_rows(split) = (n + 99) \div 100
                /\ \A k \in 1..num_rows(split) : split.rows[k] = 100 * (k - 1)
                /\ \A i \in 0..(n - 1) :
                    i % 100 = 0 => split.rows[(i \div 100) + 1] = i
    /\ cursor > CellIndex("8f5ed769") =>
        /\ \A s \in DOMAIN SplitRows :
            Val(tokenized_datasets)[s].columns = {"input_ids", "labels"}
        /\ num_rows(Val(tokenized_datasets).train) = 125
        /\ num_rows(Val(tokenized_datasets).validation) = 5
        /\ num_rows(Val(tokenized_datasets).test) = 15

\* the trainer was built over the subsampled train split
C18_Witness ==
    /\ cursor > CellIndex("8f5ed769")
    /\ IsBound(peft_trainer)
    /\ Val(peft_trainer).train_rows = 125
    /\ Val(tokenized_datasets).train.rows[125] = 12400

====
